---- MODULE Spec2Model ----
(***************************************************************************)
(* ProjectCompressor (src/main.cpp): the .gitignore rule engine and the    *)
(* directory traversal that consults it.                                   *)
(*                                                                         *)
(* A std::string is a sequence of one-character strings, a path is a       *)
(* sequence of components (each a std::string).  Indices are 0-based as in *)
(* the C++ source; At(s, k) reads s[k].                                    *)
(***************************************************************************)
EXTENDS Integers, Sequences, FiniteSets, TLC

VARIABLES
    pc,              \* position of the driver of the specification in force
    line,            \* parseGitIgnoreLine: its argument
    parsed,          \* parseGitIgnoreLine: its std::optional result, <<>> or <<rule>>
    token,           \* matchToken: first argument
    component,       \* matchToken: second argument
    tokenResult,     \* matchToken: returned value
    lines,           \* the lines of one ignore file (parseGitIgnore)
    rules,           \* std::vector<GitIgnoreRule> built from `lines`
    pathComponents,  \* pathMatchesRule / isIgnored: the path's components
    isDir,           \* pathMatchesRule / isIgnored: the isDir flag
    matched,         \* outcome of pathMatchesRule for each rule of `rules`
    ignored,         \* outcome of isIgnored
    ancestorLines,   \* content of /.gitignore      (above the traversed directory)
    baseLines,       \* content of /root/.gitignore (the traversed directory)
    subLines,        \* content of /root/sub/.gitignore
    frames,          \* call stack of processDirectory
    emitted,         \* files written to combined.txt, in order
    checked          \* the isIgnored calls made so far, in order

vars == <<pc, line, parsed, token, component, tokenResult, lines, rules,
          pathComponents, isDir, matched, ignored, ancestorLines, baseLines,
          subLines, frames, emitted, checked>>

parseVars == <<line, parsed>>
tokenVars == <<token, component, tokenResult>>
matchVars == <<lines, rules, pathComponents, isDir, matched, ignored>>
walkVars  == <<ancestorLines, baseLines, subLines, frames, emitted, checked>>

----------------------------------------------------------------------------
(* Bounds of the model.                                                    *)

MaxLineLen == 3      \* longest line handed to parseGitIgnoreLine on its own
MaxTokenLen == 3     \* longest pattern token handed to matchToken on its own
MaxCompLen == 3      \* longest path component handed to matchToken on its own
MaxPathLen == 3      \* longest enumerated path
MaxRules == 2        \* longest enumerated rule list

----------------------------------------------------------------------------
(* std::string helpers.                                                    *)

npos == -1

At(s, k) == s[k + 1]

\* s.substr(start, n)
substr(s, start, n) == SubSeq(s, start + 1, start + n)

RECURSIVE SeqsUpTo(_, _)
SeqsUpTo(S, n) ==
    IF n = 0 THEN {<<>>}
    ELSE LET shorter == SeqsUpTo(S, n - 1)
         IN  shorter \cup {Append(s, x) : s \in shorter, x \in S}

RECURSIVE find_first_not_of(_, _, _)
find_first_not_of(s, set, k) ==
    IF k >= Len(s) THEN npos
    ELSE IF At(s, k) \notin set THEN k
    ELSE find_first_not_of(s, set, k + 1)

RECURSIVE find_last_not_of(_, _, _)
find_last_not_of(s, set, k) ==
    IF k < 0 THEN npos
    ELSE IF At(s, k) \notin set THEN k
    ELSE find_last_not_of(s, set, k - 1)

ws == {" ", "\t", "\r", "\n"}

trim(s) ==
    LET start == find_first_not_of(s, ws, 0)
        end   == find_last_not_of(s, ws, Len(s) - 1)
    IN  IF start = npos THEN <<>> ELSE substr(s, start, end - start + 1)

\* str.find(delimiter, start)
RECURSIVE find(_, _, _)
find(str, delimiter, start) ==
    IF start >= Len(str) THEN npos
    ELSE IF At(str, start) = delimiter THEN start
    ELSE find(str, delimiter, start + 1)

RECURSIVE splitLoop(_, _, _, _)
splitLoop(str, delimiter, start, result) ==
    LET pos == find(str, delimiter, start)
    IN  IF pos = npos
        THEN Append(result, substr(str, start, Len(str) - start))
        ELSE splitLoop(str, delimiter, pos + 1,
                       Append(result, substr(str, start, pos - start)))

split(str, delimiter) == splitLoop(str, delimiter, 0, <<>>)

----------------------------------------------------------------------------
(* parseGitIgnoreLine, parseGitIgnore.                                     *)

GitIgnoreRule(pattern, negate, directoryOnly, anchored, tokens) ==
    [pattern |-> pattern, negate |-> negate, directoryOnly |-> directoryOnly,
     anchored |-> anchored, tokens |-> tokens]

nullopt == <<>>

\* the three stripping steps of parseGitIgnoreLine, in the order of the source
stripNegate(trimmed) ==
    IF trimmed # <<>> /\ Head(trimmed) = "!" THEN trim(Tail(trimmed)) ELSE trimmed

stripTrailingSlash(p) ==
    IF p # <<>> /\ p[Len(p)] = "/" THEN SubSeq(p, 1, Len(p) - 1) ELSE p

stripLeadingSlash(p) ==
    IF p # <<>> /\ Head(p) = "/" THEN Tail(p) ELSE p

parseGitIgnoreLine(ln) ==
    LET trimmed == trim(ln)
    IN  IF trimmed = <<>> \/ Head(trimmed) = "#"
        THEN nullopt
        ELSE LET negate == Head(trimmed) = "!"
                 p1 == stripNegate(trimmed)
                 directoryOnly == p1 # <<>> /\ p1[Len(p1)] = "/"
                 p2 == stripTrailingSlash(p1)
                 anchored == p2 # <<>> /\ Head(p2) = "/"
                 p3 == stripLeadingSlash(p2)
             IN  <<GitIgnoreRule(p3, negate, directoryOnly, anchored, split(p3, "/"))>>

RECURSIVE parseGitIgnore(_)
parseGitIgnore(fileLines) ==
    IF fileLines = <<>> THEN <<>>
    ELSE parseGitIgnoreLine(Head(fileLines)) \o parseGitIgnore(Tail(fileLines))

----------------------------------------------------------------------------
(* matchToken.                                                             *)

DoubleStar == <<"*", "*">>

RECURSIVE trailingStars(_, _)
trailingStars(tok, t) ==
    IF t < Len(tok) /\ At(tok, t) = "*" THEN trailingStars(tok, t + 1) ELSE t

RECURSIVE matchTokenLoop(_, _, _, _, _, _)
matchTokenLoop(tok, comp, t, c, starPos, starBackup) ==
    IF c < Len(comp)
    THEN IF t < Len(tok) /\ (At(tok, t) = At(comp, c) \/ At(tok, t) = "?")
         THEN matchTokenLoop(tok, comp, t + 1, c + 1, starPos, starBackup)
         ELSE IF t < Len(tok) /\ At(tok, t) = "*"
         THEN matchTokenLoop(tok, comp, t + 1, c, t, c)
         ELSE IF starPos # npos
         THEN matchTokenLoop(tok, comp, starPos + 1, starBackup + 1,
                             starPos, starBackup + 1)
         ELSE FALSE
    ELSE trailingStars(tok, t) = Len(tok)

matchToken(tok, comp) ==
    IF tok = DoubleStar THEN FALSE
    ELSE matchTokenLoop(tok, comp, 0, 0, npos, 0)

----------------------------------------------------------------------------
(* pathMatchesRule and its recursive lambda matchFromIndex.                *)
(*                                                                         *)
(* A call either returns true or false, or never returns: the lambda       *)
(* re-enters itself with the pcStart of a call that is still active, the   *)
(* same computation starts again and the recursion has no end (the process *)
(* dies of stack exhaustion).  `active` carries the pcStart of the calls   *)
(* that are on the call stack; it is not a variable of the program.        *)

Yes == "true"
No == "false"
StackOverflow == "stack overflow"

Bool(b) == IF b THEN Yes ELSE No

\* for (; i < rule.tokens.size(); i++) if (rule.tokens[i] != "**") return false;
onlyDoubleStarsFrom(tokens, i) ==
    \A k \in i .. (Len(tokens) - 1) : At(tokens, k) = DoubleStar

RECURSIVE matchFromIndex(_, _, _, _)
RECURSIVE matchWhile(_, _, _, _, _)
RECURSIVE skipLoop(_, _, _, _, _)

\* for (size_t skip = 0; j + skip <= pathComponents.size(); skip++)
\*     if (self(self, j + skip)) return true;
\* return false;
skipLoop(rule, pathComps, j, skip, active) ==
    IF j + skip <= Len(pathComps)
    THEN LET r == matchFromIndex(rule, pathComps, j + skip, active)
         IN  IF r = No
             THEN skipLoop(rule, pathComps, j, skip + 1, active)
             ELSE r
    ELSE No

\* the while loop of the lambda and the code that follows it
matchWhile(rule, pathComps, i, j, active) ==
    IF i < Len(rule.tokens) /\ j < Len(pathComps)
    THEN IF At(rule.tokens, i) = DoubleStar
         THEN IF i = Len(rule.tokens) - 1
              THEN Yes
              ELSE skipLoop(rule, pathComps, j, 0, active)
         ELSE IF ~matchToken(At(rule.tokens, i), At(pathComps, j))
              THEN No
              ELSE matchWhile(rule, pathComps, i + 1, j + 1, active)
    ELSE IF i < Len(rule.tokens)
         THEN Bool(onlyDoubleStarsFrom(rule.tokens, i))
         ELSE Bool(j = Len(pathComps))

\* auto matchFromIndex = [&](auto self, size_t pcStart) -> bool { i = 0; j = pcStart; ... }
matchFromIndex(rule, pathComps, pcStart, active) ==
    IF pcStart \in active
    THEN StackOverflow
    ELSE matchWhile(rule, pathComps, 0, pcStart, active \cup {pcStart})

\* for (size_t start = 0; start < pathComponents.size(); start++)
RECURSIVE startLoop(_, _, _)
startLoop(rule, pathComps, start) ==
    IF start < Len(pathComps)
    THEN LET r == matchFromIndex(rule, pathComps, start, {})
         IN  IF r = No THEN startLoop(rule, pathComps, start + 1) ELSE r
    ELSE No

\* matchAnchoredOrAnywhere with the anchored flag ignored
matchAnywhere(rule, pathComps) == startLoop(rule, pathComps, 0)

\* if (rule.anchored) ... else ...
matchAnchoredOrAnywhere(rule, pathComps) ==
    IF rule.anchored
    THEN matchFromIndex(rule, pathComps, 0, {})
    ELSE startLoop(rule, pathComps, 0)

\* pathMatchesRule without its test of directoryOnly
pathMatchesRuleAnyKind(pathComps, dir, rule) ==
    IF rule.tokens = <<>> THEN No
    ELSE matchAnchoredOrAnywhere(rule, pathComps)

pathMatchesRule(pathComps, dir, rule) ==
    IF rule.directoryOnly /\ ~dir THEN No
    ELSE IF rule.tokens = <<>> THEN No
    ELSE matchAnchoredOrAnywhere(rule, pathComps)

----------------------------------------------------------------------------
(* isIgnored.                                                              *)

\* fs::relative(fullPath, baseDir) for a fullPath at or below baseDir, as the
\* sequence of its components
relative(fullPath, baseDir) ==
    IF fullPath = baseDir THEN << <<".">> >>
    ELSE SubSeq(fullPath, Len(baseDir) + 1, Len(fullPath))

\* verdictOf with the negation forgotten
verdictOfInverted(rule) == Bool(rule.negate)

\* ignored = !rule.negate;
verdictOf(rule) == Bool(~rule.negate)

\* for (auto &rule : rules) if (pathMatchesRule(...)) ignored = !rule.negate;
RECURSIVE ignoreLoop(_, _, _, _, _)
ignoreLoop(components, dir, rs, k, ign) ==
    IF k >= Len(rs) THEN ign
    ELSE LET m == pathMatchesRule(components, dir, At(rs, k))
         IN  IF m = StackOverflow THEN StackOverflow
             ELSE ignoreLoop(components, dir, rs, k + 1,
                             IF m = Yes THEN verdictOf(At(rs, k)) ELSE ign)

isIgnored(fullPath, baseDir, rs, dir) ==
    ignoreLoop(relative(fullPath, baseDir), dir, rs, 0, No)

----------------------------------------------------------------------------
(* Strings used as inputs.                                                 *)

sA == <<"a">>
sB == <<"b">>
sC == <<"c">>
sX == <<"x">>
sY == <<"y">>
sFoo == <<"f", "o", "o">>
sBar == <<"b", "a", "r">>
sBuild == <<"b", "u", "i", "l", "d">>
sSlash == <<"/">>
sBang == <<"!">>

lineADoubleStarB == sA \o sSlash \o DoubleStar \o sSlash \o sB      \* a/**/b
lineDoubleStarFoo == DoubleStar \o sSlash \o sFoo                   \* **/foo
lineADoubleStar == sA \o sSlash \o DoubleStar                       \* a/**
lineAnchoredFoo == sSlash \o sFoo                                   \* /foo
lineNotFoo == sBang \o sFoo                                         \* !foo
lineBuildDir == sBuild \o sSlash                                    \* build/
lineFooDir == sFoo \o sSlash                                        \* foo/
lineAB == sA \o sSlash \o sB                                        \* a/b
lineAnchoredAB == sSlash \o sA \o sSlash \o sB                      \* /a/b
lineStar == <<"*">>                                                 \* *

NonEmpty(S) == S \ {<<>>}

----------------------------------------------------------------------------
(* Values of the variables a specification does not use.                   *)

IdleParse == line = <<>> /\ parsed = nullopt
IdleToken == token = <<>> /\ component = <<>> /\ tokenResult = FALSE
IdleMatch ==
    /\ lines = <<>> /\ rules = <<>> /\ pathComponents = <<>>
    /\ isDir = FALSE /\ matched = <<>> /\ ignored = No
IdleWalk ==
    /\ ancestorLines = <<>> /\ baseLines = <<>> /\ subLines = <<>>
    /\ frames = <<>> /\ emitted = <<>> /\ checked = <<>>

----------------------------------------------------------------------------
(* SpecParse: parseGitIgnoreLine applied to every line over LineAlphabet   *)
(* of at most MaxLineLen characters.                                       *)

LineAlphabet == {"!", "/", "#", " ", "a", "*"}

InitParse ==
    /\ pc = "parse"
    /\ line \in SeqsUpTo(LineAlphabet, MaxLineLen)
    /\ parsed = nullopt
    /\ IdleToken /\ IdleMatch /\ IdleWalk

ParseLine ==
    /\ pc = "parse"
    /\ parsed' = parseGitIgnoreLine(line)
    /\ pc' = "parsed"
    /\ UNCHANGED <<line, tokenVars, matchVars, walkVars>>

NextParse == ParseLine

SpecParse == InitParse /\ [][NextParse]_vars

----------------------------------------------------------------------------
(* SpecToken: matchToken applied to every token (other than the double     *)
(* star) and every component within the bounds.  A file name may hold any  *)
(* character but '/' and NUL, a star included.                             *)

TokenAlphabet == {"a", "b", "*", "?"}
CompAlphabet == {"a", "b", "*"}

InitToken ==
    /\ pc = "call"
    /\ token \in SeqsUpTo(TokenAlphabet, MaxTokenLen) \ {DoubleStar}
    /\ component \in SeqsUpTo(CompAlphabet, MaxCompLen)
    /\ tokenResult = FALSE
    /\ IdleParse /\ IdleMatch /\ IdleWalk

CallMatchToken ==
    /\ pc = "call"
    /\ tokenResult' = matchToken(token, component)
    /\ pc' = "returned"
    /\ UNCHANGED <<token, component, parseVars, matchVars, walkVars>>

NextToken == CallMatchToken

SpecToken == InitToken /\ [][NextToken]_vars

----------------------------------------------------------------------------
(* SpecMatch: one ignore file is parsed, then pathMatchesRule is applied   *)
(* to each of its rules and isIgnored to the whole list, for one path.     *)

BaseDir == << <<"r", "o", "o", "t">> >>       \* /root

PathNames == {sA, sB, sX}

ClaimPaths ==
    { <<sA, sX, sY, sB>>, <<sA, sB, sC>>, <<sX, sA, sB>>,
      <<sFoo>>, <<sBar, sFoo>>, <<sFoo, sBar>>, <<sBuild>> }

PathPool == NonEmpty(SeqsUpTo(PathNames, MaxPathLen)) \cup ClaimPaths

SingleLines ==
    { lineADoubleStarB, lineDoubleStarFoo, lineADoubleStar, lineAnchoredFoo,
      sFoo, lineNotFoo, lineBuildDir, sBuild, lineAB, lineAnchoredAB,
      lineStar, sSlash \o lineADoubleStarB }

ListLines == { sFoo, lineNotFoo, lineFooDir, lineAnchoredFoo, lineDoubleStarFoo, sBuild }

ListPaths == { <<sFoo>>, <<sBar, sFoo>>, <<sFoo, sBar>>, <<sBuild>> }

InitMatch ==
    /\ pc = "load"
    /\ \/ /\ lines \in {<<l>> : l \in SingleLines}
          /\ pathComponents \in PathPool
       \/ /\ lines \in SeqsUpTo(ListLines, MaxRules)
          /\ Len(lines) >= 2
          /\ pathComponents \in ListPaths
    /\ isDir \in BOOLEAN
    /\ rules = <<>> /\ matched = <<>> /\ ignored = No
    /\ IdleParse /\ IdleToken /\ IdleWalk

LoadRules ==
    /\ pc = "load"
    /\ rules' = parseGitIgnore(lines)
    /\ pc' = "match"
    /\ UNCHANGED <<lines, pathComponents, isDir, matched, ignored,
                   parseVars, tokenVars, walkVars>>

MatchRules ==
    /\ pc = "match"
    /\ matched' = [k \in 1 .. Len(rules) |->
                      pathMatchesRule(pathComponents, isDir, rules[k])]
    /\ pc' = "decide"
    /\ UNCHANGED <<lines, rules, pathComponents, isDir, ignored,
                   parseVars, tokenVars, walkVars>>

Decide ==
    /\ pc = "decide"
    /\ ignored' = isIgnored(BaseDir \o pathComponents, BaseDir, rules, isDir)
    /\ pc' = "done"
    /\ UNCHANGED <<lines, rules, pathComponents, isDir, matched,
                   parseVars, tokenVars, walkVars>>

NextMatch == LoadRules \/ MatchRules \/ Decide

SpecMatch == InitMatch /\ [][NextMatch]_vars

----------------------------------------------------------------------------
(* Spec: main.  The filesystem is                                          *)
(*                                                                         *)
(*   /.gitignore                  ancestorLines                            *)
(*   /root/.gitignore             baseLines        (argv[1] is /root)      *)
(*   /root/build/output.txt                                                *)
(*   /root/build_notes.txt                                                 *)
(*   /root/foo                                                             *)
(*   /root/sub/.gitignore         subLines                                 *)
(*   /root/sub/foo                                                         *)
(*   /root/sub/deep/foo                                                    *)
(*                                                                         *)
(* A path is the sequence of its components from the filesystem root.      *)
(* fs::directory_iterator yields the entries of a directory in an          *)
(* unspecified order: the next entry is any entry not yet visited.         *)

sGitIgnore == <<".", "g", "i", "t", "i", "g", "n", "o", "r", "e">>
sBuildNotes == sBuild \o <<"_", "n", "o", "t", "e", "s", ".", "t", "x", "t">>
sOutput == <<"o", "u", "t", "p", "u", "t", ".", "t", "x", "t">>
sSub == <<"s", "u", "b">>
sDeep == <<"d", "e", "e", "p">>
lineStarTxt == <<"*", ".", "t", "x", "t">>                          \* *.txt

FsRoot == <<>>
BuildDir == BaseDir \o <<sBuild>>
SubDir == BaseDir \o <<sSub>>
DeepDir == SubDir \o <<sDeep>>

Directories == {FsRoot, BaseDir, BuildDir, SubDir, DeepDir}

\* fs::is_directory(path)
is_directory(path) == path \in Directories

\* the names fs::directory_iterator(dir) yields
Entries(dir) ==
    IF dir = BaseDir THEN {sGitIgnore, sBuild, sBuildNotes, sFoo, sSub}
    ELSE IF dir = BuildDir THEN {sOutput}
    ELSE IF dir = SubDir THEN {sGitIgnore, sFoo, sDeep}
    ELSE IF dir = DeepDir THEN {sFoo}
    ELSE {BaseDir[1], sGitIgnore}

\* fs::exists(dir / ".gitignore")
HasIgnoreFile(dir) == dir \in {FsRoot, BaseDir, SubDir}

\* the lines std::getline reads from dir / ".gitignore"
IgnoreFileLines(dir) ==
    IF dir = FsRoot THEN ancestorLines
    ELSE IF dir = BaseDir THEN baseLines
    ELSE IF dir = SubDir THEN subLines
    ELSE <<>>

AncestorFiles == { <<>>, <<lineStarTxt>>, <<lineStarTxt, sBang \o lineStarTxt>> }
BaseFiles == { <<>>, <<lineBuildDir>>, <<lineAnchoredFoo>> }
SubFiles == { <<>>, <<lineNotFoo>>, <<lineDoubleStarFoo>> }

\* current.parent_path()
parent_path(dir) == SubSeq(dir, 1, Len(dir) - 1)

\* dirs after std::reverse: the filesystem root first, dir last
RECURSIVE dirsFromRoot(_)
dirsFromRoot(current) ==
    IF current # FsRoot
    THEN Append(dirsFromRoot(parent_path(current)), current)
    ELSE <<current>>

\* insertAtEnd inserting at allRules.begin() instead
insertAtBegin(allRules, localRules) == localRules \o allRules

\* allRules.insert(allRules.end(), localRules.begin(), localRules.end())
insertAtEnd(allRules, localRules) == allRules \o localRules

RECURSIVE gatherLoop(_, _, _)
gatherLoop(dirs, k, allRules) ==
    IF k >= Len(dirs) THEN allRules
    ELSE gatherLoop(dirs, k + 1,
                    IF HasIgnoreFile(At(dirs, k))
                    THEN insertAtEnd(allRules, parseGitIgnore(IgnoreFileLines(At(dirs, k))))
                    ELSE allRules)

gatherGitIgnoreRulesRecursively(dir) == gatherLoop(dirsFromRoot(dir), 0, <<>>)

\* a call of processDirectory(dir, out, rules) and the entries it has yet to visit
Frame(dir, rs) == [dir |-> dir, rules |-> rs, todo |-> Entries(dir)]

Top == frames[Len(frames)]

\* the loop of the running processDirectory moves past entry e
Advance(e) == [frames EXCEPT ![Len(frames)].todo = @ \ {e}]

\* what isIgnored was called with
Call(path, dir) ==
    << [fullPath |-> path, baseDir |-> dir, components |-> relative(path, dir)] >>

Init ==
    /\ pc = "start"
    /\ ancestorLines \in AncestorFiles
    /\ baseLines \in BaseFiles
    /\ subLines \in SubFiles
    /\ frames = <<>> /\ emitted = <<>> /\ checked = <<>>
    /\ IdleParse /\ IdleToken /\ IdleMatch

\* main: topLevelRules = gather...(directoryPath); processDirectory(directoryPath, ...)
Main ==
    /\ pc = "start"
    /\ frames' = <<Frame(BaseDir, gatherGitIgnoreRulesRecursively(BaseDir))>>
    /\ pc' = "walk"
    /\ UNCHANGED <<ancestorLines, baseLines, subLines, emitted, checked,
                   parseVars, tokenVars, matchVars>>

\* if (path.filename() == ".gitignore") continue;
SkipGitIgnoreFile ==
    /\ pc = "walk" /\ frames # <<>>
    /\ \E e \in Top.todo :
          /\ e = sGitIgnore
          /\ frames' = Advance(e)
    /\ UNCHANGED <<pc, ancestorLines, baseLines, subLines, emitted, checked,
                   parseVars, tokenVars, matchVars>>

\* isIgnored(path, dir, rules, directory) never returns
Crash ==
    /\ pc = "walk" /\ frames # <<>>
    /\ \E e \in Top.todo :
          LET path == Top.dir \o <<e>>
          IN  /\ e # sGitIgnore
              /\ isIgnored(path, Top.dir, Top.rules, is_directory(path)) = StackOverflow
              /\ checked' = Call(path, Top.dir)
    /\ pc' = "crashed"
    /\ UNCHANGED <<ancestorLines, baseLines, subLines, frames, emitted,
                   parseVars, tokenVars, matchVars>>

\* if (isIgnored(path, dir, rules, directory)) continue;
SkipIgnored ==
    /\ pc = "walk" /\ frames # <<>>
    /\ \E e \in Top.todo :
          LET path == Top.dir \o <<e>>
          IN  /\ e # sGitIgnore
              /\ isIgnored(path, Top.dir, Top.rules, is_directory(path)) = Yes
              /\ checked' = Call(path, Top.dir)
              /\ frames' = Advance(e)
    /\ UNCHANGED <<pc, ancestorLines, baseLines, subLines, emitted,
                   parseVars, tokenVars, matchVars>>

\* if (directory) { subDirRules = rules (+ localRules); processDirectory(path, out, subDirRules); }
Descend ==
    /\ pc = "walk" /\ frames # <<>>
    /\ \E e \in Top.todo :
          LET path == Top.dir \o <<e>>
              subDirRules ==
                  IF HasIgnoreFile(path)
                  THEN insertAtEnd(Top.rules, parseGitIgnore(IgnoreFileLines(path)))
                  ELSE Top.rules
          IN  /\ e # sGitIgnore
              /\ isIgnored(path, Top.dir, Top.rules, is_directory(path)) = No
              /\ is_directory(path)
              /\ checked' = Call(path, Top.dir)
              /\ frames' = Append(Advance(e), Frame(path, subDirRules))
    /\ UNCHANGED <<pc, ancestorLines, baseLines, subLines, emitted,
                   parseVars, tokenVars, matchVars>>

\* else { out << "# File: " << path << ... }
EmitFile ==
    /\ pc = "walk" /\ frames # <<>>
    /\ \E e \in Top.todo :
          LET path == Top.dir \o <<e>>
          IN  /\ e # sGitIgnore
              /\ isIgnored(path, Top.dir, Top.rules, is_directory(path)) = No
              /\ ~is_directory(path)
              /\ checked' = Call(path, Top.dir)
              /\ emitted' = Append(emitted, path)
              /\ frames' = Advance(e)
    /\ UNCHANGED <<pc, ancestorLines, baseLines, subLines,
                   parseVars, tokenVars, matchVars>>

\* the directory_iterator of the running processDirectory is exhausted
Return ==
    /\ pc = "walk" /\ frames # <<>>
    /\ Top.todo = {}
    /\ frames' = SubSeq(frames, 1, Len(frames) - 1)
    /\ pc' = IF Len(frames) = 1 THEN "done" ELSE "walk"
    /\ UNCHANGED <<ancestorLines, baseLines, subLines, emitted, checked,
                   parseVars, tokenVars, matchVars>>

Next == Main \/ SkipGitIgnoreFile \/ Crash \/ SkipIgnored \/ Descend \/ EmitFile \/ Return

Spec == Init /\ [][Next]_vars

----------------------------------------------------------------------------
(* Properties.                                                             *)

Range(f) == {f[k] : k \in DOMAIN f}

\* the rules of `rules` that pathMatchesRule reported as matching
MatchingRules == {k \in 1 .. Len(rules) : matched[k] = Yes}

LastMatching == CHOOSE k \in MatchingRules : \A m \in MatchingRules : m <= k

\* C1: last-match-wins.  isIgnored returns false when no rule of the list
\* matches the path, and otherwise the negation of the negate flag of the last
\* rule of the list that matches it.
C1_LastMatchWins ==
    pc = "done" =>
        ignored = IF MatchingRules = {} THEN No
                  ELSE Bool(~rules[LastMatching].negate)

\* C2: a double star in the middle of a pattern stands for zero or more whole
\* components: the rule parsed from a/**/b matches a/b, a/x/b and a/x/y/b, and
\* matches neither a/b/c nor x/a/b.
C2_DoubleStarMiddle ==
    (pc = "done" /\ lines = <<lineADoubleStarB>>) =>
        /\ pathComponents \in {<<sA, sB>>, <<sA, sX, sB>>, <<sA, sX, sY, sB>>}
              => matched[1] = Yes
        /\ pathComponents \in {<<sA, sB, sC>>, <<sX, sA, sB>>}
              => matched[1] = No

\* C3: pathMatchesRule returns true or false for every rule that
\* parseGitIgnoreLine produces and every path; the recursion of matchFromIndex
\* never re-enters a call that is still active.
C3_AlwaysReturns ==
    pc \in {"decide", "done"} =>
        \A k \in 1 .. Len(rules) : matched[k] \in {Yes, No}

\* C4: the components handed to the ignore decision are the entry's path
\* relative to the one directory the traversal started from, at every depth.
C4_FixedBase ==
    checked # <<>> =>
        /\ checked[1].baseDir = BaseDir
        /\ checked[1].components = relative(checked[1].fullPath, BaseDir)

\* the tokens of a rule match, one for one, the components of the path from
\* offset start to the end of the path
MatchesSuffixAt(rule, pathComps, start) ==
    /\ Len(pathComps) - start = Len(rule.tokens)
    /\ \A i \in 0 .. (Len(rule.tokens) - 1) :
          matchToken(At(rule.tokens, i), At(pathComps, start + i))

StartOffsets(rule, pathComps) ==
    IF rule.anchored THEN {0} ELSE 0 .. (Len(pathComps) - 1)

HasDoubleStar(rule) == \E i \in DOMAIN rule.tokens : rule.tokens[i] = DoubleStar

\* C5: anchoring.  A rule with a leading '/' is tried at offset 0 only, a rule
\* without it at every offset, and the match consumes the path to its end: a
\* rule without a double star matches exactly when its tokens match the
\* components from one of its start offsets to the end of the path.  /foo
\* matches foo and not bar/foo, foo matches foo and bar/foo, neither
\* matches foo/bar.
C5_Anchoring ==
    pc = "done" =>
        /\ \A k \in 1 .. Len(rules) :
              (~HasDoubleStar(rules[k]) /\ (isDir \/ ~rules[k].directoryOnly)) =>
                  (matched[k] = Yes <=>
                      \E start \in StartOffsets(rules[k], pathComponents) :
                          MatchesSuffixAt(rules[k], pathComponents, start))
        /\ lines = <<lineAnchoredFoo>> =>
              /\ rules[1].anchored
              /\ matched[1] = Yes <=> pathComponents = <<sFoo>>
        /\ lines = <<sFoo>> =>
              /\ ~rules[1].anchored
              /\ matched[1] = Yes <=> pathComponents \in {<<sFoo>>, <<sBar, sFoo>>}

C5_Witness ==
    /\ pc = "done"
    /\ lines = <<lineAnchoredFoo>>
    /\ pathComponents = <<sBar, sFoo>>
    /\ matched = <<No>>

\* C6: directory-only.  A rule whose pattern ended with '/' never matches when
\* isDir is false; when isDir is true it matches exactly as the same rule
\* without the flag does.  build/ matches the directory build and never the
\* regular file build.
C6_DirectoryOnly ==
    pc = "done" =>
        /\ \A k \in 1 .. Len(rules) :
              rules[k].directoryOnly =>
                  /\ ~isDir => matched[k] = No
                  /\ isDir => matched[k] = pathMatchesRule(
                                  pathComponents, isDir,
                                  [rules[k] EXCEPT !.directoryOnly = FALSE])
        /\ (lines = <<lineBuildDir>> /\ pathComponents = <<sBuild>>) =>
              /\ rules[1].directoryOnly
              /\ matched[1] = Bool(isDir)

C6_Witness ==
    /\ pc = "done"
    /\ lines = <<lineBuildDir>>
    /\ pathComponents = <<sBuild>>
    /\ ~isDir
    /\ matched = <<No>>

\* the rules of the ignore files of the directories from the filesystem root
\* down to dir, root-most first
RECURSIVE ChainRules(_)
ChainRules(dir) ==
    (IF dir = FsRoot THEN <<>> ELSE ChainRules(parent_path(dir)))
        \o parseGitIgnore(IgnoreFileLines(dir))

\* C7: the rule list every running processDirectory(D, ...) works with is the
\* concatenation of the ignore files on the chain from the filesystem root to
\* D, each once, in order; a caller's list is not changed by the callee's.
C7_RuleSetComposition ==
    \A k \in 1 .. Len(frames) : frames[k].rules = ChainRules(frames[k].dir)

\* build is visited after the subtree of sub, which has rules of its own, is done
C7_Witness ==
    /\ pc = "walk"
    /\ ancestorLines # <<>> /\ baseLines # <<>> /\ subLines # <<>>
    /\ Len(frames) = 2
    /\ Top.dir = BuildDir
    /\ (SubDir \o <<sFoo>>) \in Range(emitted)
    /\ (DeepDir \o <<sFoo>>) \in Range(emitted)

\* C8: parseGitIgnoreLine returns nothing or a rule whose tokens are not empty
\* and whose pattern is not the empty string.
C8_WellFormedRule ==
    (pc = "parsed" /\ parsed # nullopt) =>
        /\ parsed[1].tokens # <<>>
        /\ parsed[1].pattern # <<>>

AncestorRules == ChainRules(parent_path(BaseDir))

RECURSIVE GlobMatches(_, _)
GlobMatches(p, c) ==
    IF p = <<>> THEN c = <<>>
    ELSE IF Head(p) = "*"
         THEN GlobMatches(Tail(p), c) \/ (c # <<>> /\ GlobMatches(p, Tail(c)))
         ELSE /\ c # <<>>
              /\ (Head(p) = "?" \/ Head(p) = Head(c))
              /\ GlobMatches(Tail(p), Tail(c))

\* C10: matchToken(segment, component) is true exactly when the component is
\* an instance of the segment under glob semantics.
C10_GlobSemantics ==
    pc = "returned" => (tokenResult <=> GlobMatches(token, component))

====
